---- MODULE Spec2Model ----
(***************************************************************************)
(* Model of src/python/ISStest/iss.py: ConfigParser, the Inno Setup script *)
(* parser.  Text is a sequence of one-character strings, so that the       *)
(* regular expressions, strip(), repr() and write() are computed           *)
(* character by character.  A Python dict (OrderedDict) is a sequence of   *)
(* [k, v] records in insertion order.                                      *)
(***************************************************************************)
EXTENDS Integers, Sequences, FiniteSets, TLC

VARIABLES
    sections,     \* self._sections : OrderedDict name -> OrderedDict
    defaults,     \* self._defaults : OrderedDict option -> value
    allow_no_value, \* constructor flag: self._optcre is OPTCRE_NV
    pc,           \* "idle" | "read" (the for loop of read) | "parse" (the while loop of _read)
    filenames,    \* read(): the file names not yet tried
    read_ok,      \* read(): the list of successfully read files
    cursect,      \* _read(): None, the defaults dict or a section dict
    optname,      \* _read(): None (here <<>>) or the pending option name
    lineno,       \* _read(): line counter
    e,            \* _read(): the errors of the ParsingError being set up
    result,       \* what the last finished call returned or raised
    given,        \* history: the argument of the running read()
    tried,        \* history: per file name tried by read(), whether open() succeeded
    lines,        \* history: the lines _read() has read from the current file
    before        \* history: the Document when the current file was opened

vars == <<sections, defaults, allow_no_value, pc, filenames, read_ok, cursect,
          optname, lineno, e, result, given, tried, lines, before>>

-----------------------------------------------------------------------------
(* Text *)

NL  == "\n"
TAB == "\t"

DEFAULTSECT  == <<"D","E","F","A","U","L","T">>
SETUP        == <<"S","e","t","u","p">>
CONTENTBLOCK == <<"_","_","C","o","n","t","e","n","t","_","_">>
NAME         == <<"_","_","n","a","m","e","_","_">>

UpperCase == <<"A","B","C","D","E","F","G","H","I","J","K","L","M",
               "N","O","P","Q","R","S","T","U","V","W","X","Y","Z">>
LowerCase == <<"a","b","c","d","e","f","g","h","i","j","k","l","m",
               "n","o","p","q","r","s","t","u","v","w","x","y","z">>

\* str.isspace() of one character
isspace(c) == c \in {" ", TAB, NL}

\* str.lower()
lower(s) ==
    [i \in 1..Len(s) |->
        IF \E j \in 1..26 : UpperCase[j] = s[i]
        THEN LowerCase[CHOOSE j \in 1..26 : UpperCase[j] = s[i]]
        ELSE s[i]]

\* str.lstrip(), str.rstrip(), str.strip()
lstrip(s) ==
    IF \A i \in 1..Len(s) : isspace(s[i]) THEN <<>>
    ELSE SubSeq(s, CHOOSE i \in 1..Len(s) :
                      ~isspace(s[i]) /\ \A j \in 1..(i-1) : isspace(s[j]), Len(s))

rstrip(s) ==
    IF \A i \in 1..Len(s) : isspace(s[i]) THEN <<>>
    ELSE SubSeq(s, 1, CHOOSE i \in 1..Len(s) :
                      ~isspace(s[i]) /\ \A j \in (i+1)..Len(s) : isspace(s[j]))

strip(s) == lstrip(rstrip(s))

\* line.split(None, 1)[0] : the first whitespace-delimited word
split0(s) ==
    LET t == lstrip(s)
    IN  IF \E i \in 1..Len(t) : isspace(t[i])
        THEN SubSeq(t, 1, (CHOOSE i \in 1..Len(t) :
                              isspace(t[i]) /\ \A j \in 1..(i-1) : ~isspace(t[j])) - 1)
        ELSE t

\* str.find(c): the 0-based index of the first c, or -1
find(s, c) ==
    IF \E i \in 1..Len(s) : s[i] = c
    THEN (CHOOSE i \in 1..Len(s) : s[i] = c /\ \A j \in 1..(i-1) : s[j] # c) - 1
    ELSE -1

RECURSIVE concat(_)
\* ''.join(list)
concat(l) == IF l = <<>> THEN <<>> ELSE Head(l) \o concat(Tail(l))

RECURSIVE join(_, _)
\* sep.join(list)
join(sep, l) ==
    IF l = <<>> THEN <<>>
    ELSE IF Len(l) = 1 THEN l[1]
    ELSE l[1] \o sep \o join(sep, Tail(l))

RECURSIVE replace_nl(_)
\* str.replace('\n', '\n\t')
replace_nl(s) ==
    IF s = <<>> THEN <<>>
    ELSE IF Head(s) = NL THEN <<NL, TAB>> \o replace_nl(Tail(s))
    ELSE <<Head(s)>> \o replace_nl(Tail(s))

RECURSIVE escape(_)
\* the body of repr(str): newline and tab are written as two characters
escape(s) ==
    IF s = <<>> THEN <<>>
    ELSE (IF Head(s) = NL THEN <<"\\", "n">>
          ELSE IF Head(s) = TAB THEN <<"\\", "t">>
          ELSE <<Head(s)>>) \o escape(Tail(s))

\* repr(str)
repr(s) == <<"'">> \o escape(s) \o <<"'">>

RECURSIVE readlines(_)
\* fp.readline() until it returns '': the lines of a text, terminators kept
readlines(text) ==
    IF text = <<>> THEN <<>>
    ELSE LET n == find(text, NL)
         IN  IF n = -1 THEN <<text>>
             ELSE <<SubSeq(text, 1, n + 1)>> \o readlines(SubSeq(text, n + 2, Len(text)))

-----------------------------------------------------------------------------
(* Values and dicts *)

\* a Python value stored in a dict: a str, a list of str, or None
VStr(s)  == [t |-> "str",  s |-> s,    l |-> <<>>]
VList(l) == [t |-> "list", s |-> <<>>, l |-> l]
VNone    == [t |-> "none", s |-> <<>>, l |-> <<>>]

\* key in d
DHas(d, k) == \E i \in 1..Len(d) : d[i].k = k

\* d[key]
DGet(d, k) == d[CHOOSE i \in 1..Len(d) : d[i].k = k].v

\* d[key] = value : an OrderedDict keeps the place of a key it has
DPut(d, k, v) ==
    IF DHas(d, k)
    THEN [i \in 1..Len(d) |-> IF d[i].k = k THEN [k |-> k, v |-> v] ELSE d[i]]
    ELSE Append(d, [k |-> k, v |-> v])

RECURSIVE DDel(_, _)
\* del d[key]
DDel(d, k) ==
    IF d = <<>> THEN <<>>
    ELSE IF Head(d).k = k THEN Tail(d)
    ELSE <<Head(d)>> \o DDel(Tail(d), k)

\* d.keys()
DKeys(d) == [i \in 1..Len(d) |-> d[i].k]

RECURSIVE DUpdate(_, _)
\* d.update(other)
DUpdate(d, other) ==
    IF other = <<>> THEN d
    ELSE DUpdate(DPut(d, Head(other).k, Head(other).v), Tail(other))

-----------------------------------------------------------------------------
(* Regular expressions *)

\* SECTCRE.match(line) succeeds: '[', one or more characters other than ']', ']'
SECTCRE_match(line) ==
    /\ Len(line) >= 3
    /\ line[1] = "["
    /\ line[2] # "]"
    /\ \E j \in 3..Len(line) : line[j] = "]"

\* mo.group('header')
SECTCRE_header(line) == SubSeq(line, 2, find(line, "]"))

\* the 1-based place of the first ':' or '=' of a line, 0 when it has none
sep_at(line) ==
    IF \E i \in 1..Len(line) : line[i] \in {":", "="}
    THEN CHOOSE i \in 1..Len(line) :
            line[i] \in {":", "="} /\ \A j \in 1..(i-1) : line[j] \notin {":", "="}
    ELSE 0

\* OPTCRE.match(line) succeeds: a first character that is no separator and no
\* space, then a separator; '.*$' needs the line to end at its first newline
OPTCRE_match(line) ==
    /\ line # <<>>
    /\ line[1] \notin {":", "="}
    /\ ~isspace(line[1])
    /\ sep_at(line) # 0
    /\ find(line, NL) \in {-1, Len(line) - 1}

\* OPTCRE_NV.match(line) succeeds: the separator and the value are optional
OPTCRE_NV_match(line) ==
    /\ line # <<>>
    /\ line[1] \notin {":", "="}
    /\ ~isspace(line[1])
    /\ find(line, NL) \in {-1, Len(line) - 1}

\* mo.group('option'): up to the separator, or the whole line (OPTCRE_NV)
group_option(line) ==
    IF sep_at(line) = 0 THEN line ELSE SubSeq(line, 1, sep_at(line) - 1)

\* mo.group('value') is not None
group_has_value(line) == sep_at(line) # 0

\* mo.group('value'): after the separator and '\s*', up to the end of line
group_value(line) ==
    LET r == lstrip(SubSeq(line, sep_at(line) + 1, Len(line)))
    IN  IF r # <<>> /\ r[Len(r)] = NL THEN SubSeq(r, 1, Len(r) - 1) ELSE r

\* self._optcre.match(line)
optcre_match(nv, line) == IF nv THEN OPTCRE_NV_match(line) ELSE OPTCRE_match(line)

\* lines 429-439: a ';' of the value that follows a spacing character starts
\* a comment (optval[pos-1] with pos = 0 is the last character); strip; '""'
option_value(optval) ==
    LET pos == find(optval, ";")
        cut == IF pos # -1
                  /\ isspace(optval[IF pos = 0 THEN Len(optval) ELSE pos])
               THEN SubSeq(optval, 1, pos)
               ELSE optval
        val == strip(cut)
    IN  IF val = <<"\"", "\"">> THEN <<>> ELSE val

-----------------------------------------------------------------------------
(* _read: the parser *)

CurNone         == [kind |-> "none",     name |-> <<>>]
CurDefaults     == [kind |-> "defaults", name |-> <<>>]
CurSection(n)   == [kind |-> "section",  name |-> n]

NoExc           == [type |-> "none", lineno |-> 0, line |-> <<>>, errors |-> <<>>]
Exc(t, n, l)    == [type |-> t, lineno |-> n, line |-> l, errors |-> <<>>]

\* the state of _read at the top of its while loop
ParseStart(secs, defs) ==
    [sections |-> secs, defaults |-> defs, cursect |-> CurNone, optname |-> <<>>,
     lineno |-> 0, e |-> <<>>, exc |-> NoExc]

\* the dict cursect refers to
cur_dict(ps) ==
    IF ps.cursect.kind = "defaults" THEN ps.defaults
    ELSE DGet(ps.sections, ps.cursect.name)

\* cursect[key] = value, seen through self._defaults or self._sections
cur_put(ps, k, v) ==
    IF ps.cursect.kind = "defaults"
    THEN [ps EXCEPT !.defaults = DPut(@, k, v)]
    ELSE [ps EXCEPT !.sections = DPut(@, ps.cursect.name, DPut(cur_dict(ps), k, v))]

\* raise with the number of the line before: the counter bumped too late
raise_zero_based(ps, t, line) == [ps EXCEPT !.exc = Exc(t, ps.lineno - 1, line)]

\* raise: the exception leaves _read with the current line number
raise(ps, t, line) == [ps EXCEPT !.exc = Exc(t, ps.lineno, line)]

\* read_header with no case for the reserved defaults name
read_header_any_name(ps, line) ==
    LET sectname == SECTCRE_header(line)
    IN  IF DHas(ps.sections, sectname)
        THEN [ps EXCEPT !.cursect = CurSection(sectname), !.optname = <<>>]
        ELSE [ps EXCEPT !.cursect = CurSection(sectname), !.optname = <<>>,
                        !.sections = DPut(@, sectname,
                                          <<[k |-> NAME, v |-> VStr(sectname)]>>)]

\* lines 401-413: a section header
read_header(ps, line) ==
    LET sectname == SECTCRE_header(line)
    IN  IF DHas(ps.sections, sectname)
        THEN [ps EXCEPT !.cursect = CurSection(sectname), !.optname = <<>>]
        ELSE IF sectname = DEFAULTSECT
        THEN [ps EXCEPT !.cursect = CurDefaults, !.optname = <<>>]
        ELSE [ps EXCEPT !.cursect = CurSection(sectname), !.optname = <<>>,
                        !.sections = DPut(@, sectname,
                                          <<[k |-> NAME, v |-> VStr(sectname)]>>)]

\* lines 423-451: an option line of the Setup section, or a bogus line
read_option(ps, nv, line) ==
    IF optcre_match(nv, line)
    THEN LET name == rstrip(group_option(line))
             val  == IF group_has_value(line)
                     THEN VList(<<option_value(group_value(line))>>)
                     ELSE VNone
         IN  [cur_put(ps, name, val) EXCEPT !.optname = name]
    ELSE [ps EXCEPT !.e = Append(@, <<ps.lineno, repr(line)>>)]

\* line 420: cursect[CONTENTBLOCK] = cursect.get(CONTENTBLOCK, '') + line
read_content(ps, line) ==
    LET old == IF DHas(cur_dict(ps), CONTENTBLOCK)
               THEN DGet(cur_dict(ps), CONTENTBLOCK) ELSE VStr(<<>>)
    IN  IF old.t # "str" THEN raise(ps, "TypeError", line)
        ELSE cur_put(ps, CONTENTBLOCK, VStr(old.s \o line))

\* lines 394-451: a line that was not skipped
read_body(ps, nv, line) ==
    IF isspace(line[1]) /\ ps.cursect.kind # "none" /\ ps.optname # <<>>
    THEN \* continuation line: cursect[optname].append(value)
         LET value == strip(line)
         IN  IF value = <<>> THEN ps
             ELSE IF ~DHas(cur_dict(ps), ps.optname) THEN raise(ps, "KeyError", line)
             ELSE IF DGet(cur_dict(ps), ps.optname).t # "list"
             THEN raise(ps, "AttributeError", line)
             ELSE cur_put(ps, ps.optname,
                          VList(Append(DGet(cur_dict(ps), ps.optname).l, value)))
    ELSE IF SECTCRE_match(line) THEN read_header(ps, line)
    ELSE IF ps.cursect.kind = "none"
    THEN raise(ps, "MissingSectionHeaderError", line)
    ELSE IF ~DHas(cur_dict(ps), NAME) THEN raise(ps, "KeyError", line)
    ELSE IF DGet(cur_dict(ps), NAME) # VStr(SETUP) THEN read_content(ps, line)
    ELSE read_option(ps, nv, line)

\* lines 385-451: one turn of the while loop on a line readline() returned
read_line(ps, nv, line) ==
    LET p == [ps EXCEPT !.lineno = @ + 1]
    IN  IF strip(line) = <<>> \/ line[1] \in {"#", ";"}
        THEN IF p.cursect.kind = "none" THEN p
             ELSE IF ~DHas(cur_dict(p), NAME) THEN raise(p, "KeyError", line)
             ELSE IF DGet(cur_dict(p), NAME) = VStr(SETUP) THEN p
             ELSE read_body(p, nv, line)
        ELSE IF lower(split0(line)) = <<"r", "e", "m">> /\ line[1] \in {"r", "R"}
        THEN p
        ELSE read_body(p, nv, line)

\* line 462: options[name] = '\n'.join(val) for every list in one dict
join_dict(d) ==
    [i \in 1..Len(d) |->
        IF d[i].v.t = "list" THEN [k |-> d[i].k, v |-> VStr(join(<<NL>>, d[i].v.l))]
        ELSE d[i]]

\* lines 452-462: after the loop, raise the ParsingError or join the values
read_end(ps) ==
    IF ps.e # <<>>
    THEN [ps EXCEPT !.exc = [type |-> "ParsingError", lineno |-> 0, line |-> <<>>,
                             errors |-> ps.e]]
    ELSE [ps EXCEPT !.defaults = join_dict(@),
                    !.sections = [i \in 1..Len(@) |->
                                     [k |-> @[i].k, v |-> join_dict(@[i].v)]]]

RECURSIVE read_loop(_, _, _)
\* lines 381-451: the while loop over the lines of a file
read_loop(ps, nv, ls) ==
    IF ls = <<>> \/ ps.exc.type # "none" THEN ps
    ELSE read_loop(read_line(ps, nv, Head(ls)), nv, Tail(ls))

\* _read(fp, fpname) on a whole text
read_text(secs, defs, nv, text) ==
    LET ps == read_loop(ParseStart(secs, defs), nv, readlines(text))
    IN  IF ps.exc.type # "none" THEN ps ELSE read_end(ps)

-----------------------------------------------------------------------------
(* write: the serializer *)

\* the text of a Python string literal, for the texts the program writes
NoneText == <<"N","o","n","e">>

\* str(value): a str is itself, None is 'None', a list is the repr of the list
str(v) ==
    IF v.t = "str" THEN v.s
    ELSE IF v.t = "none" THEN NoneText
    ELSE <<"[">> \o join(<<",", " ">>, [i \in 1..Len(v.l) |-> repr(v.l[i])]) \o <<"]">>

\* lines 302-306: the [DEFAULT] block, written when self._defaults is not empty
write_defaults(defs) ==
    IF defs = <<>> THEN <<>>
    ELSE <<"[">> \o DEFAULTSECT \o <<"]", NL>>
         \o concat([i \in 1..Len(defs) |->
                defs[i].k \o <<" ", "=", " ">> \o replace_nl(str(defs[i].v)) \o <<NL>>])
         \o <<NL>>

\* lines 310-317: one (key, value) of a section
write_item(section, nv, key, value) ==
    IF key = NAME THEN <<>>
    ELSE IF key = CONTENTBLOCK /\ section # SETUP THEN str(value)
    ELSE IF value.t # "none" \/ ~nv
    THEN key \o <<"=">> \o replace_nl(str(value)) \o <<NL>>
    ELSE <<>>

\* lines 308-317: one section
write_section(section, nv, d) ==
    <<"[">> \o section \o <<"]", NL>>
    \o concat([i \in 1..Len(d) |-> write_item(section, nv, d[i].k, d[i].v)])

\* write(fp): everything written to fp
write(secs, defs, nv) ==
    write_defaults(defs)
    \o concat([i \in 1..Len(secs) |-> write_section(secs[i].k, nv, secs[i].v)])

-----------------------------------------------------------------------------
(* The lookup and mutation methods, as functions of the Document *)

Raised(t)   == [exc |-> Exc(t, 0, <<>>), ret |-> FALSE]
Returned(r) == [exc |-> NoExc, ret |-> r]

\* get with the defaults overlay looked up before the section
get_defaults_first(secs, defs, section, option) ==
    IF ~DHas(secs, section)
    THEN IF section # DEFAULTSECT THEN Raised("NoSectionError")
         ELSE IF DHas(defs, option) THEN Returned(DGet(defs, option))
         ELSE Raised("NoOptionError")
    ELSE IF DHas(defs, option) THEN Returned(DGet(defs, option))
    ELSE IF DHas(DGet(secs, section), option)
    THEN Returned(DGet(DGet(secs, section), option))
    ELSE Raised("NoOptionError")

\* get that looks a missing section up in the defaults instead of raising
get_section_unchecked(secs, defs, section, option) ==
    IF ~DHas(secs, section)
    THEN IF DHas(defs, option) THEN Returned(DGet(defs, option))
         ELSE Raised("NoOptionError")
    ELSE IF DHas(DGet(secs, section), option)
    THEN Returned(DGet(DGet(secs, section), option))
    ELSE IF DHas(defs, option) THEN Returned(DGet(defs, option))
    ELSE Raised("NoOptionError")

\* get(section, option)
get(secs, defs, section, option) ==
    IF ~DHas(secs, section)
    THEN IF section # DEFAULTSECT THEN Raised("NoSectionError")
         ELSE IF DHas(defs, option) THEN Returned(DGet(defs, option))
         ELSE Raised("NoOptionError")
    ELSE IF DHas(DGet(secs, section), option)
    THEN Returned(DGet(DGet(secs, section), option))
    ELSE IF DHas(defs, option) THEN Returned(DGet(defs, option))
    ELSE Raised("NoOptionError")

\* has_option(section, option)
has_option(secs, defs, section, option) ==
    IF section = <<>> \/ section = DEFAULTSECT THEN DHas(defs, option)
    ELSE IF ~DHas(secs, section) THEN FALSE
    ELSE DHas(DGet(secs, section), option) \/ DHas(defs, option)

\* sections(): the keys of self._sections
section_names(secs) == DKeys(secs)

\* has_section(section)
has_section(secs, section) == DHas(secs, section)

\* options(section): the option names of the section and of the defaults,
\* without the internal name
options(secs, defs, section) ==
    IF ~DHas(secs, section) THEN Raised("NoSectionError")
    ELSE Returned(DKeys(DDel(DUpdate(DGet(secs, section), defs), NAME)))

\* items(section): the (name, value) pairs of the defaults updated with the
\* section, without the internal name
items(secs, defs, section) ==
    IF ~DHas(secs, section) /\ section # DEFAULTSECT THEN Raised("NoSectionError")
    ELSE LET d2 == IF DHas(secs, section) THEN DGet(secs, section) ELSE <<>>
             d  == DDel(DUpdate(defs, d2), NAME)
         IN  Returned([i \in 1..Len(d) |-> <<d[i].k, d[i].v>>])

\* get(section, option, vars): line 241 declares get(self, section, option), so
\* a call with a third argument raises TypeError before the body runs
get_vars(secs, defs, section, option, vars_) == Raised("TypeError")

\* the result of a call: what it raised or returned, and the Document after it
Outcome(x, r, secs, defs) ==
    [exc |-> x, ret |-> r, sections |-> secs, defaults |-> defs]

\* add_section with the reserved name compared without lower()
add_section_case_sensitive(secs, defs, section) ==
    IF section = DEFAULTSECT
    THEN Outcome(Exc("ValueError", 0, <<>>), FALSE, secs, defs)
    ELSE IF DHas(secs, section)
    THEN Outcome(Exc("DuplicateSectionError", 0, <<>>), FALSE, secs, defs)
    ELSE Outcome(NoExc, FALSE, DPut(secs, section, <<>>), defs)

\* add_section(section)
add_section(secs, defs, section) ==
    IF lower(section) = lower(DEFAULTSECT)
    THEN Outcome(Exc("ValueError", 0, <<>>), FALSE, secs, defs)
    ELSE IF DHas(secs, section)
    THEN Outcome(Exc("DuplicateSectionError", 0, <<>>), FALSE, secs, defs)
    ELSE Outcome(NoExc, FALSE, DPut(secs, section, <<>>), defs)

\* set that creates a section it does not find
set_creates_section(secs, defs, section, option, value) ==
    IF section = <<>> \/ section = DEFAULTSECT
    THEN Outcome(NoExc, FALSE, secs, DPut(defs, option, value))
    ELSE IF ~DHas(secs, section)
    THEN Outcome(NoExc, FALSE, DPut(secs, section, <<[k |-> option, v |-> value]>>),
                 defs)
    ELSE Outcome(NoExc, FALSE,
                 DPut(secs, section, DPut(DGet(secs, section), option, value)), defs)

\* set(section, option, value)
set(secs, defs, section, option, value) ==
    IF section = <<>> \/ section = DEFAULTSECT
    THEN Outcome(NoExc, FALSE, secs, DPut(defs, option, value))
    ELSE IF ~DHas(secs, section)
    THEN Outcome(Exc("NoSectionError", 0, <<>>), FALSE, secs, defs)
    ELSE Outcome(NoExc, FALSE,
                 DPut(secs, section, DPut(DGet(secs, section), option, value)), defs)

\* remove_option(section, option)
remove_option(secs, defs, section, option) ==
    IF section = <<>> \/ section = DEFAULTSECT
    THEN Outcome(NoExc, DHas(defs, option), secs, DDel(defs, option))
    ELSE IF ~DHas(secs, section)
    THEN Outcome(Exc("NoSectionError", 0, <<>>), FALSE, secs, defs)
    ELSE Outcome(NoExc, DHas(DGet(secs, section), option),
                 DPut(secs, section, DDel(DGet(secs, section), option)), defs)

\* remove_section(section)
remove_section(secs, defs, section) ==
    Outcome(NoExc, DHas(secs, section), DDel(secs, section), defs)

-----------------------------------------------------------------------------
(* State *)

NoResult == [op |-> "none", args |-> <<>>, exc |-> NoExc, ret |-> FALSE]
Document(secs, defs) == [sections |-> secs, defaults |-> defs]

\* ConfigParser(defaults, allow_no_value=nv): lines 162-173
Construct(defs, nv) ==
    /\ sections = <<>>
    /\ defaults = defs
    /\ allow_no_value = nv
    /\ pc = "idle"
    /\ filenames = <<>>
    /\ read_ok = <<>>
    /\ cursect = CurNone
    /\ optname = <<>>
    /\ lineno = 0
    /\ e = <<>>
    /\ result = NoResult
    /\ given = <<>>
    /\ tried = <<>>
    /\ lines = <<>>
    /\ before = Document(<<>>, <<>>)

\* the locals of _read do not outlive the call
NoLocals ==
    /\ cursect' = CurNone
    /\ optname' = <<>>
    /\ lineno' = 0
    /\ e' = <<>>

\* the history of a read() is kept until the next call
Forget ==
    /\ given' = <<>>
    /\ tried' = <<>>
    /\ lines' = <<>>
    /\ before' = Document(<<>>, <<>>)

\* the parser state of _read, from the variables
ParseState ==
    [sections |-> sections, defaults |-> defaults, cursect |-> cursect,
     optname |-> optname, lineno |-> lineno, e |-> e, exc |-> NoExc]

-----------------------------------------------------------------------------
(* read and _read, statement by statement *)

\* read(filenames): lines 227-229, entering the for loop
Read(fns) ==
    /\ pc = "idle"
    /\ pc' = "read"
    /\ filenames' = fns
    /\ read_ok' = <<>>
    /\ given' = fns
    /\ tried' = <<>>
    /\ lines' = <<>>
    /\ before' = Document(<<>>, <<>>)
    /\ result' = NoResult
    /\ UNCHANGED <<sections, defaults, allow_no_value, cursect, optname, lineno, e>>

\* OpenFail with self._sections replaced before open() is tried
OpenFail_resets ==
    /\ pc = "read"
    /\ filenames # <<>>
    /\ filenames' = Tail(filenames)
    /\ tried' = Append(tried, FALSE)
    /\ sections' = <<>>
    /\ UNCHANGED <<defaults, allow_no_value, pc, read_ok, cursect, optname,
                   lineno, e, result, given, lines, before>>

\* lines 231-234: open(filename) raises IOError, the file is skipped
OpenFail ==
    /\ pc = "read"
    /\ filenames # <<>>
    /\ filenames' = Tail(filenames)
    /\ tried' = Append(tried, FALSE)
    /\ UNCHANGED <<sections, defaults, allow_no_value, pc, read_ok, cursect, optname,
                   lineno, e, result, given, lines, before>>

\* OpenOk that keeps self._sections: a later file is merged into the earlier
OpenOk_merges ==
    /\ pc = "read"
    /\ filenames # <<>>
    /\ pc' = "parse"
    /\ tried' = Append(tried, TRUE)
    /\ lines' = <<>>
    /\ before' = Document(sections, defaults)
    /\ NoLocals
    /\ UNCHANGED <<sections, defaults, allow_no_value, filenames, read_ok, result, given>>

\* lines 232-235 and 377-380: the file opens, self._sections is replaced by an
\* empty dict and _read starts
OpenOk ==
    /\ pc = "read"
    /\ filenames # <<>>
    /\ sections' = <<>>
    /\ pc' = "parse"
    /\ tried' = Append(tried, TRUE)
    /\ lines' = <<>>
    /\ before' = Document(sections, defaults)
    /\ NoLocals
    /\ UNCHANGED <<defaults, allow_no_value, filenames, read_ok, result, given>>

\* lines 382-451: readline() returns a line and the loop body runs on it; an
\* exception leaves _read and read
ReadLine(line, max) ==
    /\ pc = "parse"
    /\ Len(lines) < max
    /\ IF lines = <<>> THEN TRUE ELSE lines[Len(lines)][Len(lines[Len(lines)])] = NL
    /\ lines' = Append(lines, line)
    /\ LET ps == read_line(ParseState, allow_no_value, line)
       IN  /\ sections' = ps.sections
           /\ defaults' = ps.defaults
           /\ IF ps.exc.type = "none"
              THEN /\ cursect' = ps.cursect
                   /\ optname' = ps.optname
                   /\ lineno' = ps.lineno
                   /\ e' = ps.e
                   /\ UNCHANGED <<pc, filenames, read_ok, result>>
              ELSE /\ NoLocals
                   /\ pc' = "idle"
                   /\ filenames' = <<>>
                   /\ read_ok' = <<>>
                   /\ result' = [op |-> "read", args |-> <<given>>, exc |-> ps.exc,
                                 ret |-> FALSE]
    /\ UNCHANGED <<allow_no_value, given, tried, before>>

\* lines 383-384, 452-462 and 237-238: readline() returns '', _read raises the
\* ParsingError or joins the values, read records the file
ReadEOF ==
    /\ pc = "parse"
    /\ LET ps == read_end(ParseState)
       IN  /\ sections' = ps.sections
           /\ defaults' = ps.defaults
           /\ IF ps.exc.type = "none"
              THEN /\ pc' = "read"
                   /\ read_ok' = Append(read_ok, Head(filenames))
                   /\ filenames' = Tail(filenames)
                   /\ UNCHANGED result
              ELSE /\ pc' = "idle"
                   /\ filenames' = <<>>
                   /\ read_ok' = <<>>
                   /\ result' = [op |-> "read", args |-> <<given>>, exc |-> ps.exc,
                                 ret |-> FALSE]
    /\ NoLocals
    /\ UNCHANGED <<allow_no_value, given, tried, lines, before>>

\* line 239: return read_ok
ReadReturn ==
    /\ pc = "read"
    /\ filenames = <<>>
    /\ pc' = "idle"
    /\ result' = [op |-> "read", args |-> <<given>>, exc |-> NoExc, ret |-> read_ok]
    /\ read_ok' = <<>>
    /\ UNCHANGED <<sections, defaults, allow_no_value, filenames, cursect, optname,
                   lineno, e, given, tried, lines, before>>

-----------------------------------------------------------------------------
(* The methods called on an idle parser *)

\* a call that ran from start to end: its result, and the Document it left
Call(op, args, out) ==
    /\ pc = "idle"
    /\ sections' = out.sections
    /\ defaults' = out.defaults
    /\ result' = [op |-> op, args |-> args, exc |-> out.exc, ret |-> out.ret]
    /\ Forget
    /\ UNCHANGED <<allow_no_value, pc, filenames, read_ok, cursect, optname, lineno, e>>

AddSection(section) ==
    Call("add_section", <<section>>, add_section(sections, defaults, section))

RemoveSection(section) ==
    Call("remove_section", <<section>>, remove_section(sections, defaults, section))

Set(section, option, value) ==
    Call("set", <<section, option, value>>,
         set(sections, defaults, section, option, value))

RemoveOption(section, option) ==
    Call("remove_option", <<section, option>>,
         remove_option(sections, defaults, section, option))

Get(section, option) ==
    LET r == get(sections, defaults, section, option)
    IN  Call("get", <<section, option>>, Outcome(r.exc, r.ret, sections, defaults))

GetVars(section, option, vars_) ==
    LET r == get_vars(sections, defaults, section, option, vars_)
    IN  Call("get", <<section, option, vars_>>,
             Outcome(r.exc, r.ret, sections, defaults))

Options(section) ==
    LET r == options(sections, defaults, section)
    IN  Call("options", <<section>>, Outcome(r.exc, r.ret, sections, defaults))

Items(section) ==
    LET r == items(sections, defaults, section)
    IN  Call("items", <<section>>, Outcome(r.exc, r.ret, sections, defaults))

HasOption(section, option) ==
    Call("has_option", <<section, option>>,
         Outcome(NoExc, has_option(sections, defaults, section, option),
                 sections, defaults))

Write ==
    Call("write", <<>>,
         Outcome(NoExc, write(sections, defaults, allow_no_value), sections, defaults))

-----------------------------------------------------------------------------
(* SpecLoad: one read() of one file by a freshly constructed parser *)

MaxLines == 4

s_k == <<"k">>
s_v == <<"v">>
s_w == <<"w">>

L_Setup    == <<"[","S","e","t","u","p","]",NL>>
L_A        == <<"[","A","]",NL>>
L_DEFAULT  == <<"[","D","E","F","A","U","L","T","]",NL>>
L_strip    == <<"k","=","a"," ",";","c",NL>>
L_nostrip  == <<"k","=","a",";","c",NL>>
L_cont     == <<" ","w",NL>>
L_blank    == <<NL>>
L_comment  == <<";","c",NL>>
L_rem      == <<"r","e","m",NL>>
L_bad      == <<"b","a","d",NL>>
L_name     == <<"_","_","n","a","m","e","_","_","=","x",NL>>
L_last     == <<"x">>
L_second   == <<"k","=","a",";","b"," ",";","c",NL>>
L_space    == <<" ",NL>>

LoadPool == {L_Setup, L_A, L_DEFAULT, L_strip, L_nostrip, L_second, L_cont, L_blank,
             L_space, L_comment, L_rem, L_bad, L_name, L_last}

LoadDefaults == {<<>>, <<[k |-> s_k, v |-> VStr(s_v)]>>}

LoadInit == \E defs \in LoadDefaults, nv \in BOOLEAN : Construct(defs, nv)

LoadRead == result.op = "none" /\ Read(<<"A">>)

LoadLine == \E line \in LoadPool : ReadLine(line, MaxLines)

LoadNext == LoadRead \/ OpenOk \/ LoadLine \/ ReadEOF \/ ReadReturn

SpecLoad == LoadInit /\ [][LoadNext]_vars

-----------------------------------------------------------------------------
(* Spec: the methods of a parser, with read() of one small file at a time *)

MaxApiLines == 2

s_A       == <<"A">>
s_B       == <<"B">>
s_Default == <<"D","e","f","a","u","l","t">>
s_default == <<"d","e","f","a","u","l","t">>

L_option == <<"k","=","v",NL>>

\* the names and values the calls are made with
AddNames     == {SETUP, s_A, DEFAULTSECT, s_Default, s_default}
SectionNames == {<<>>, DEFAULTSECT, SETUP, s_A}
OptionNames  == {s_k}
Values       == {VStr(s_v), VStr(s_w)}
Overrides    == {<<>>, <<[k |-> s_k, v |-> VStr(<<"o">>)]>>}
Paths        == {"A", "B"}
ApiPool      == {L_Setup, L_A, L_DEFAULT, L_option, L_bad}

Init == \E nv \in BOOLEAN : Construct(<<>>, nv)

Next ==
    \/ \E section \in AddNames : AddSection(section)
    \/ \E section \in SectionNames : RemoveSection(section)
    \/ \E section \in SectionNames, option \in OptionNames, value \in Values :
          Set(section, option, value)
    \/ \E section \in SectionNames, option \in OptionNames :
          RemoveOption(section, option)
    \/ \E section \in SectionNames, option \in OptionNames : Get(section, option)
    \/ \E section \in SectionNames, option \in OptionNames, vars_ \in Overrides :
          GetVars(section, option, vars_)
    \/ \E section \in SectionNames : Options(section)
    \/ \E section \in SectionNames : Items(section)
    \/ \E section \in SectionNames, option \in OptionNames : HasOption(section, option)
    \/ Write
    \/ \E path \in Paths : Read(<<path>>)
    \/ OpenFail
    \/ OpenOk
    \/ \E line \in ApiPool : ReadLine(line, MaxApiLines)
    \/ ReadEOF
    \/ ReadReturn

Spec == Init /\ [][Next]_vars

-----------------------------------------------------------------------------
(* SpecBulk: read() of lists of small files, after add_section and set *)

MaxPaths == 2

\* the lists of at most MaxPaths paths
PathLists == UNION {[1..m -> Paths] : m \in 1..MaxPaths}

BulkPool == {L_Setup, L_option, L_bad}

BulkInit == \E nv \in BOOLEAN : Construct(<<>>, nv)

BulkNext ==
    \/ AddSection(s_B)
    \/ \E section \in {<<>>, s_B} : Set(section, s_k, VStr(s_w))
    \/ \E fns \in PathLists : Read(fns)
    \/ OpenFail
    \/ OpenOk
    \/ \E line \in BulkPool : ReadLine(line, MaxApiLines)
    \/ ReadEOF
    \/ ReadReturn

SpecBulk == BulkInit /\ [][BulkNext]_vars

-----------------------------------------------------------------------------
(* What a file says, read off the lines of the history *)

\* a read() has finished, by returning or by raising
LoadDone == pc = "idle" /\ result.op = "read"

\* read() returned after loading the file whose lines are in the history
LoadedOk == LoadDone /\ result.exc.type = "none" /\ result.ret # <<>>

\* a blank line, or a comment line starting with '#' or ';'
BlankOrComment(line) == strip(line) = <<>> \/ line[1] \in {"#", ";"}

\* a line whose first word is 'rem', in any case, with no leading whitespace
RemLine(line) ==
    /\ ~BlankOrComment(line)
    /\ line[1] \in {"r", "R"}
    /\ lower(split0(line)) = <<"r", "e", "m">>

\* a section header line: [text-without-']']
HeaderLine(line) == SECTCRE_match(line)

\* the ContentBlock of a section dict, empty when nothing was captured
ContentOf(d) == IF DHas(d, CONTENTBLOCK) THEN DGet(d, CONTENTBLOCK) ELSE VStr(<<>>)

\* the (name, value) pairs of a dict
ItemsOf(d) == {<<d[i].k, d[i].v>> : i \in 1..Len(d)}

RECURSIVE VerbatimOf(_, _, _)
\* the non-header lines of ls, in order, that came while section name was current
VerbatimOf(ls, cur, name) ==
    IF ls = <<>> THEN <<>>
    ELSE IF HeaderLine(Head(ls))
    THEN VerbatimOf(Tail(ls), SECTCRE_header(Head(ls)), name)
    ELSE (IF cur = name THEN Head(ls) ELSE <<>>) \o VerbatimOf(Tail(ls), cur, name)

\* two Documents are equivalent: same defaults, same section names in the same
\* order, same options in Setup, same content block elsewhere
Equivalent(s1, d1, s2, d2) ==
    /\ ItemsOf(d1) = ItemsOf(d2)
    /\ Len(s1) = Len(s2)
    /\ \A i \in 1..Len(s1) :
          /\ i <= Len(s2)
          /\ s1[i].k = s2[i].k
          /\ IF s1[i].k = SETUP
             THEN ItemsOf(s1[i].v) = ItemsOf(s2[i].v)
             ELSE ContentOf(s1[i].v) = ContentOf(s2[i].v)

\* C1 (as claimed): the Document of a successful load, written with write() and
\* loaded again by a new parser of the same mode, loads without error and
\* gives an equivalent Document.
C1_RoundTrip ==
    LoadedOk =>
        LET r == read_text(<<>>, <<>>, allow_no_value,
                           write(sections, defaults, allow_no_value))
        IN  /\ r.exc.type = "none"
            /\ Equivalent(r.sections, r.defaults, sections, defaults)

\* C2 (as claimed): after a successful load the ContentBlock of every section
\* other than Setup is the concatenation, in order, of every non-header line
\* that appeared while that section was current.
C2_VerbatimContent ==
    LoadedOk =>
        \A i \in 1..Len(sections) :
            sections[i].k # SETUP =>
                ContentOf(sections[i].v) = VStr(VerbatimOf(lines, <<>>, sections[i].k))

RECURSIVE SetupBad(_, _, _, _, _)
\* the (line number, repr(line)) of the lines of ls that, in Setup mode, are no
\* header, no blank, comment or rem line, no continuation (a line starting with
\* whitespace while an option is pending) and no option line
SetupBad(ls, n, cur, pending, nv) ==
    IF ls = <<>> THEN <<>>
    ELSE LET l == Head(ls)
             rest == Tail(ls)
         IN  IF cur # SETUP
             THEN SetupBad(rest, n + 1,
                           IF HeaderLine(l) /\ ~BlankOrComment(l) /\ ~RemLine(l)
                           THEN SECTCRE_header(l) ELSE cur, FALSE, nv)
             ELSE IF BlankOrComment(l) \/ RemLine(l)
             THEN SetupBad(rest, n + 1, cur, pending, nv)
             ELSE IF isspace(l[1]) /\ pending
             THEN SetupBad(rest, n + 1, cur, pending, nv)
             ELSE IF HeaderLine(l)
             THEN SetupBad(rest, n + 1, SECTCRE_header(l), FALSE, nv)
             ELSE IF optcre_match(nv, l)
             THEN SetupBad(rest, n + 1, cur, TRUE, nv)
             ELSE <<<<n, repr(l)>>>> \o SetupBad(rest, n + 1, cur, pending, nv)

\* C3 (as claimed): when the lines of a file with a section header hold lines
\* that are unparsable in Setup mode, the load ends in one ParsingError that
\* lists exactly those lines with their line numbers, in file order.
C3_AggregatedParseFailure ==
    (LoadDone /\ SetupBad(lines, 1, <<>>, FALSE, allow_no_value) # <<>>) =>
        /\ result.exc.type = "ParsingError"
        /\ result.exc.errors = SetupBad(lines, 1, <<>>, FALSE, allow_no_value)

\* the 1-based place of the first line that is neither blank nor a comment,
\* or 0 when there is none
FirstNotBlankOrComment(ls) ==
    IF \E i \in 1..Len(ls) : ~BlankOrComment(ls[i])
    THEN CHOOSE i \in 1..Len(ls) :
            ~BlankOrComment(ls[i]) /\ \A j \in 1..(i-1) : BlankOrComment(ls[j])
    ELSE 0

\* the 1-based place of the first line that is neither blank, nor a comment,
\* nor a rem line, or 0 when there is none
FirstNotSkipped(ls) ==
    IF \E i \in 1..Len(ls) : ~(BlankOrComment(ls[i]) \/ RemLine(ls[i]))
    THEN CHOOSE i \in 1..Len(ls) :
            /\ ~(BlankOrComment(ls[i]) \/ RemLine(ls[i]))
            /\ \A j \in 1..(i-1) : BlankOrComment(ls[j]) \/ RemLine(ls[j])
    ELSE 0

\* the load of the current file ended at line n with MissingSectionHeaderError
\* for that line, with no section created and the defaults as they were
MissingHeaderAt(n) ==
    /\ LoadDone
    /\ result.exc.type = "MissingSectionHeaderError"
    /\ result.exc.lineno = n
    /\ result.exc.line = lines[n]
    /\ Len(lines) = n
    /\ sections = <<>>
    /\ defaults = before.defaults

\* C4 (as claimed): if the first line that is neither blank nor a comment is
\* no section header, the load raises MissingSectionHeaderError with that
\* line's number at that line: nothing later is read, no section is created.
C4_MissingHeaderOriginal ==
    LET n == FirstNotBlankOrComment(lines)
    IN  (n # 0 /\ ~HeaderLine(lines[n])) => MissingHeaderAt(n)

\* C4 (amended): the same for the first line that is neither blank, nor a
\* comment, nor a 'rem' line (these are skipped before any header too).
C4_MissingHeader ==
    LET n == FirstNotSkipped(lines)
    IN  (n # 0 /\ ~HeaderLine(lines[n])) => MissingHeaderAt(n)

\* C4 witness: the load was aborted by a headerless line that followed
\* skipped lines.
C4_Witness ==
    /\ LoadDone
    /\ result.exc.type = "MissingSectionHeaderError"
    /\ result.exc.lineno >= 2
    /\ FirstNotSkipped(lines) = result.exc.lineno

\* C5 (as claimed): a file made of a [DEFAULT] header followed by option lines
\* loads without error, every option is then readable from the defaults
\* overlay, and there is no section named DEFAULT.
C5_DefaultsRouting ==
    (/\ Len(lines) >= 2
     /\ HeaderLine(lines[1])
     /\ SECTCRE_header(lines[1]) = DEFAULTSECT
     /\ \A i \in 2..Len(lines) : OPTCRE_match(lines[i])) =>
        /\ result.exc.type = "none"
        /\ ~has_section(sections, DEFAULTSECT)
        /\ LoadedOk =>
              \A i \in 2..Len(lines) :
                  has_option(sections, defaults, DEFAULTSECT,
                             rstrip(group_option(lines[i])))

-----------------------------------------------------------------------------
(* Lookup and mutation *)

\* in every section, an option the defaults overlay defines too is looked up
\* in the section
SectionShadows ==
    \A i \in 1..Len(sections) : \A j \in 1..Len(sections[i].v) :
        DHas(defaults, sections[i].v[j].k) =>
            get(sections, defaults, sections[i].k, sections[i].v[j].k)
                = Returned(sections[i].v[j].v)

\* a step in which remove_option returns true for an option of an existing
\* section that the defaults overlay defines leaves get returning the defaults
\* value and has_option true
RemovalExposes ==
    (/\ pc = "idle"
     /\ result'.op = "remove_option"
     /\ result'.exc.type = "none"
     /\ result'.ret = TRUE
     /\ has_section(sections, result'.args[1])
     /\ DHas(defaults, result'.args[2]))
    => (/\ get(sections', defaults', result'.args[1], result'.args[2])
             = Returned(DGet(defaults, result'.args[2]))
        /\ has_option(sections', defaults', result'.args[1], result'.args[2]))

\* C6: an option defined in an existing section and in the defaults overlay
\* is looked up in the section; once remove_option has removed it from the
\* section, get returns the defaults value and has_option is still true.
C6_DefaultsShadowing == []SectionShadows /\ [][RemovalExposes]_vars

\* C6 witness: remove_option has just removed from a section an option that
\* the defaults overlay defines with another value.
C6_Witness ==
    /\ result.op = "remove_option"
    /\ result.exc.type = "none"
    /\ result.ret = TRUE
    /\ has_section(sections, result.args[1])
    /\ DHas(defaults, result.args[2])
    /\ ~DHas(DGet(sections, result.args[1]), result.args[2])

\* add_section was just called with a name that is 'default' in some case
ReservedAdd ==
    /\ pc = "idle"
    /\ result'.op = "add_section"
    /\ lower(result'.args[1]) = lower(DEFAULTSECT)

\* the call raised an error of kind t and left the Document unchanged
RejectedWith(t) ==
    /\ result'.exc.type = t
    /\ sections' = sections
    /\ defaults' = defaults

\* C7 (as claimed): add_section with a name equal to 'default' in any case
\* fails with DuplicateSectionError and leaves the Document unchanged.
C7_ReservedNameOriginal == [][ReservedAdd => RejectedWith("DuplicateSectionError")]_vars

\* C7 (amended): it fails with ValueError, which is not the error raised for
\* a name already present, and leaves the Document unchanged.
C7_ReservedName == [][ReservedAdd => RejectedWith("ValueError")]_vars

\* C7 witness: add_section was called with the reserved name in mixed case.
C7_Witness ==
    /\ result.op = "add_section"
    /\ result.args[1] = s_Default
    /\ result.exc.type # "none"

-----------------------------------------------------------------------------
(* Bulk load *)

RECURSIVE OpenedOf(_, _)
\* the paths of fns, in order, whose open() succeeded
OpenedOf(fns, flags) ==
    IF fns = <<>> \/ flags = <<>> THEN <<>>
    ELSE (IF Head(flags) THEN <<Head(fns)>> ELSE <<>>)
         \o OpenedOf(Tail(fns), Tail(flags))

\* read() that returns, returns the paths whose open() succeeded, in order
ReturnsOpened ==
    (LoadDone /\ result.exc.type = "none") =>
        (Len(tried) = Len(given) /\ result.ret = OpenedOf(given, tried))

\* the step of read() for a path that cannot be opened changes neither
\* sections nor defaults and raises nothing
SkipsUnopened ==
    (pc = "read" /\ tried' = Append(tried, FALSE)) =>
        (sections' = sections /\ defaults' = defaults /\ pc' = "read")

\* C8: when no file fails to parse, read() returns the paths that could be
\* opened, in the given order; a path that cannot be opened raises nothing
\* and leaves sections and defaults as they were.
C8_BulkLoad == []ReturnsOpened /\ [][SkipsUnopened]_vars

\* C8 witness: read() returned after a path that could not be opened and a
\* later one that could, with a section loaded before the failed open.
C8_Witness ==
    /\ LoadDone
    /\ result.exc.type = "none"
    /\ \E i \in 1..Len(tried) : \E j \in 1..Len(tried) :
          i < j /\ ~tried[i] /\ tried[j]
    /\ Len(result.ret) < Len(given)
    /\ sections # <<>>

RECURSIVE HeaderNames(_, _)
\* the names of the header lines of ls other than DEFAULT, in order of first
\* appearance (seen: the names met so far)
HeaderNames(ls, seen) ==
    IF ls = <<>> THEN <<>>
    ELSE IF /\ HeaderLine(Head(ls))
            /\ SECTCRE_header(Head(ls)) # DEFAULTSECT
            /\ SECTCRE_header(Head(ls)) \notin seen
    THEN <<SECTCRE_header(Head(ls))>>
         \o HeaderNames(Tail(ls), seen \cup {SECTCRE_header(Head(ls))})
    ELSE HeaderNames(Tail(ls), seen)

\* the option names of the option lines of ls
OptionNamesOf(ls) ==
    {rstrip(group_option(ls[i])) : i \in {j \in 1..Len(ls) : OPTCRE_NV_match(ls[j])}}

\* after a load the sections are those of the headers of the last file
\* opened, and hold only what the parser stores for the lines of that file
OnlyLastFile ==
    LoadedOk =>
        /\ DKeys(sections) = HeaderNames(lines, {})
        /\ \A i \in 1..Len(sections) : \A j \in 1..Len(sections[i].v) :
              sections[i].v[j].k \in {NAME, CONTENTBLOCK} \cup OptionNamesOf(lines)

\* a step of read() keeps every key of the defaults overlay
KeepsDefaults ==
    pc \in {"read", "parse"} =>
        \A i \in 1..Len(defaults) : DHas(defaults', defaults[i].k)

\* C9: after read() has loaded files, the sections are exactly those of the
\* headers of the last file opened, holding nothing but what that file gave
\* them; no step of a read() removes a key of the defaults overlay.
C9_ReplaceNotMerge == []OnlyLastFile /\ [][KeepsDefaults]_vars

\* C9 witness: a second file was loaded over sections of an earlier file or of
\* add_section, none of which is left, and the defaults overlay is not empty.
C9_Witness ==
    /\ LoadedOk
    /\ before.sections # <<>>
    /\ before.defaults # <<>>
    /\ \A i \in 1..Len(before.sections) : ~has_section(sections, before.sections[i].k)

\* C10 (as claimed): when the load of a file raises ParsingError or
\* MissingSectionHeaderError, sections and defaults are afterwards what they
\* were when that file was opened.
C10_FailedLoadKeepsState ==
    (LoadDone /\ result.exc.type \in {"ParsingError", "MissingSectionHeaderError"}) =>
        /\ sections = before.sections
        /\ defaults = before.defaults

-----------------------------------------------------------------------------
(* C11: continuation lines of the Setup section *)

\* the section the most recent header line of ls names, <<>> before any header
LastHeader(ls) ==
    IF \E i \in 1..Len(ls) : HeaderLine(ls[i])
    THEN SECTCRE_header(ls[CHOOSE i \in 1..Len(ls) :
             HeaderLine(ls[i]) /\ \A j \in (i+1)..Len(ls) : ~HeaderLine(ls[j])])
    ELSE <<>>

RECURSIVE SetupPending(_, _, _, _, _)
\* the option lines that follow a [Setup] header, read off the lines of a file:
\* each option name with the list of its first-line value and of the stripped
\* lines that begin with whitespace and follow it; blank, whitespace-only,
\* comment and rem lines add nothing
SetupPending(ls, cur, pending, acc, nv) ==
    IF ls = <<>> THEN acc
    ELSE LET l == Head(ls)
             rest == Tail(ls)
         IN  IF BlankOrComment(l) \/ RemLine(l)
             THEN SetupPending(rest, cur, pending, acc, nv)
             ELSE IF cur = SETUP /\ isspace(l[1]) /\ pending # <<>>
             THEN SetupPending(rest, cur, pending,
                      IF DGet(acc, pending).t = "list"
                      THEN DPut(acc, pending,
                                VList(Append(DGet(acc, pending).l, strip(l))))
                      ELSE acc, nv)
             ELSE IF HeaderLine(l)
             THEN SetupPending(rest, SECTCRE_header(l), <<>>, acc, nv)
             ELSE IF cur = SETUP /\ optcre_match(nv, l)
             THEN SetupPending(rest, cur, rstrip(group_option(l)),
                      DPut(acc, rstrip(group_option(l)),
                           IF group_has_value(l)
                           THEN VList(<<option_value(group_value(l))>>)
                           ELSE VNone), nv)
             ELSE SetupPending(rest, cur, pending, acc, nv)

\* C11 (as claimed): after a successful load, every option of the Setup section
\* that has a value holds its first-line value followed by the stripped
\* continuation lines that came after it, joined with newlines in file order.
C11_ContinuationJoining ==
    LoadedOk =>
        LET want == SetupPending(lines, <<>>, <<>>, <<>>, allow_no_value)
        IN  \A i \in 1..Len(want) :
                want[i].v.t = "list" =>
                    /\ DHas(sections, SETUP)
                    /\ DHas(DGet(sections, SETUP), want[i].k)
                    /\ DGet(DGet(sections, SETUP), want[i].k)
                           = VStr(join(<<NL>>, want[i].v.l))

-----------------------------------------------------------------------------
(* C12: comments at the end of a value *)

\* the text of an option line after its separator, without the line terminator
TextAfterSeparator(line) ==
    LET r == SubSeq(line, sep_at(line) + 1, Len(line))
    IN  IF r # <<>> /\ r[Len(r)] = NL THEN SubSeq(r, 1, Len(r) - 1) ELSE r

\* the value as claimed: the text before the first ';' that follows a
\* whitespace character, or the whole text when there is no such ';', trimmed
\* (and '""' standing for the empty value)
ClaimedValue(raw) ==
    LET val == IF \E i \in 2..Len(raw) : raw[i] = ";" /\ isspace(raw[i-1])
               THEN LET i == CHOOSE i \in 2..Len(raw) :
                                 /\ raw[i] = ";" /\ isspace(raw[i-1])
                                 /\ \A j \in 2..(i-1) :
                                        ~(raw[j] = ";" /\ isspace(raw[j-1]))
                    IN  strip(SubSeq(raw, 1, i - 1))
               ELSE strip(raw)
    IN  IF val = <<"\"", "\"">> THEN <<>> ELSE val

\* the last line read is an option line with a value, under a [Setup] header
SetupOptionRead ==
    /\ pc = "parse"
    /\ lines # <<>>
    /\ LastHeader(SubSeq(lines, 1, Len(lines) - 1)) = SETUP
    /\ LET l == lines[Len(lines)]
       IN  /\ ~BlankOrComment(l)
           /\ ~RemLine(l)
           /\ ~isspace(l[1])
           /\ ~HeaderLine(l)
           /\ optcre_match(allow_no_value, l)
           /\ group_has_value(l)

\* C12 (as claimed): an option line of the Setup section stores the text before
\* a ';' that follows whitespace, trimmed, and the whole trimmed text when no
\* ';' of the value follows whitespace.
C12_CommentStripping ==
    SetupOptionRead =>
        LET l == lines[Len(lines)]
            name == rstrip(group_option(l))
        IN  /\ DHas(sections, SETUP)
            /\ DHas(DGet(sections, SETUP), name)
            /\ DGet(DGet(sections, SETUP), name)
                   = VList(<<ClaimedValue(TextAfterSeparator(l))>>)

-----------------------------------------------------------------------------
(* C13: get with an override mapping *)

\* get was called with a section, an option and an override mapping
GetVarsCalled == result.op = "get" /\ Len(result.args) = 3

\* C13 (as claimed): get(section, option, vars) returns the value vars gives
\* the option when it defines it, and otherwise resolves the option in the
\* section and then in the defaults, as get(section, option) does.
C13_ThreeTierLookup ==
    GetVarsCalled =>
        LET section == result.args[1]
            option  == result.args[2]
            vars_   == result.args[3]
            plain   == get(sections, defaults, section, option)
        IN  IF DHas(vars_, option)
               /\ (DHas(sections, section) \/ section = DEFAULTSECT)
            THEN result.exc.type = "none" /\ result.ret = DGet(vars_, option)
            ELSE result.exc = plain.exc /\ result.ret = plain.ret

-----------------------------------------------------------------------------
(* C14: the errors of get *)

\* get was called with a section and an option
GetCalled == result.op = "get" /\ Len(result.args) = 2

\* the section of the call is neither in the section mapping nor the reserved
\* defaults name
SectionUnknown(section) == ~DHas(sections, section) /\ section # DEFAULTSECT

\* the option of the call is in neither the section nor the defaults overlay
OptionUnknown(section, option) ==
    /\ ~DHas(defaults, option)
    /\ DHas(sections, section) => ~DHas(DGet(sections, section), option)

\* NoSectionError exactly for an unknown section, otherwise NoOptionError
\* exactly for an unknown option
GetErrors ==
    GetCalled =>
        LET section == result.args[1]
            option  == result.args[2]
        IN  /\ result.exc.type = "NoSectionError" <=> SectionUnknown(section)
            /\ ~SectionUnknown(section) =>
                  (result.exc.type = "NoOptionError"
                      <=> OptionUnknown(section, option))

\* a get that raised left the Document as it was
GetErrorKeepsDocument ==
    (result'.op = "get" /\ Len(result'.args) = 2 /\ result'.exc.type # "none") =>
        sections' = sections /\ defaults' = defaults

\* C14: get(section, option) raises NoSectionError exactly when the section is
\* not in the section mapping and is not the reserved defaults name; otherwise
\* it raises NoOptionError exactly when the option is in neither the section
\* nor the defaults; in both cases the Document is unchanged.
C14_LookupErrors == []GetErrors /\ [][GetErrorKeepsDocument]_vars

\* C14 witness: get raised NoOptionError for a section that exists
C14_Witness ==
    /\ GetCalled
    /\ result.exc.type = "NoOptionError"
    /\ DHas(sections, result.args[1])

-----------------------------------------------------------------------------
(* C15: what set writes and what it leaves alone *)

\* dict d2 is dict d1 with d2[k] = v written and nothing else touched
WritesOnly(d1, d2, k, v) ==
    /\ DHas(d2, k)
    /\ DGet(d2, k) = v
    /\ DDel(d2, k) = DDel(d1, k)

\* the step is a set(s, o, v) that wrote what it had to and nothing else
SetFrame ==
    result'.op = "set" =>
        LET s == result'.args[1]
            o == result'.args[2]
            v == result'.args[3]
        IN  IF s = <<>> \/ s = DEFAULTSECT
            THEN /\ result'.exc.type = "none"
                 /\ sections' = sections
                 /\ WritesOnly(defaults, defaults', o, v)
            ELSE IF DHas(sections, s)
            THEN /\ result'.exc.type = "none"
                 /\ defaults' = defaults
                 /\ DKeys(sections') = DKeys(sections)
                 /\ WritesOnly(DGet(sections, s), DGet(sections', s), o, v)
                 /\ \A i \in 1..Len(sections) :
                        sections[i].k # s => sections'[i] = sections[i]
            ELSE /\ result'.exc.type = "NoSectionError"
                 /\ sections' = sections
                 /\ defaults' = defaults

\* C15: set(s, o, v) with s empty or the reserved defaults name writes only
\* defaults[o]; with s an existing section it writes only option o of that
\* section; with any other s it raises NoSectionError and changes nothing.
C15_SetFrame == [][SetFrame]_vars

\* C15 witness: set wrote an option of one of two sections, with defaults set
C15_Witness ==
    /\ result.op = "set"
    /\ result.exc.type = "none"
    /\ DHas(sections, result.args[1])
    /\ Len(sections) >= 2
    /\ defaults # <<>>

-----------------------------------------------------------------------------
(* C16: the internal name of a section *)

\* text t holds the text w somewhere
Contains(t, w) ==
    \E i \in 1..(Len(t) - Len(w) + 1) : SubSeq(t, i, i + Len(w) - 1) = w

\* the names options() lists, the pairs items() lists
Listed(r) == {r.ret[i] : i \in 1..Len(r.ret)}

\* options(), items() and write() do not show the internal name
NameNotListed ==
    pc = "idle" =>
        /\ \A i \in 1..Len(sections) :
              /\ NAME \notin Listed(options(sections, defaults, sections[i].k))
              /\ \A it \in Listed(items(sections, defaults, sections[i].k)) :
                     it[1] # NAME
        /\ ~Contains(write(sections, defaults, allow_no_value), NAME)

\* get() and has_option() do not find the internal name
NameNotFound ==
    pc = "idle" =>
        \A i \in 1..Len(sections) :
            /\ get(sections, defaults, sections[i].k, NAME).exc.type = "NoOptionError"
            /\ ~has_option(sections, defaults, sections[i].k, NAME)

\* C16 (as claimed): in every Document state where no option named __name__
\* was stored by a caller, no public read shows the internal name of a section:
\* options() and items() do not list it, get() does not return it,
\* has_option() is false for it, and write() does not emit it.
C16_HiddenInternalName == NameNotListed /\ NameNotFound

-----------------------------------------------------------------------------
(* C17: the key of the content block *)

\* C17 (as claimed): after a successful load, options(section) lists the key
\* __Content__ for no section of the Document.
C17_HiddenSentinelKey ==
    LoadedOk =>
        \A i \in 1..Len(sections) :
            CONTENTBLOCK \notin Listed(options(sections, defaults, sections[i].k))

-----------------------------------------------------------------------------
(* C18: the two kinds of section *)

\* the keys of a section dict other than the internal name
OwnKeys(d) == {d[i].k : i \in 1..Len(d)} \ {NAME}

\* C18 (as claimed): between calls, a section named Setup holds no content
\* block, and a section of any other name holds a content block and no other
\* option.
C18_SectionKind ==
    pc = "idle" =>
        \A i \in 1..Len(sections) :
            IF sections[i].k = SETUP
            THEN CONTENTBLOCK \notin OwnKeys(sections[i].v)
            ELSE OwnKeys(sections[i].v) = {CONTENTBLOCK}

-----------------------------------------------------------------------------
(* C19: how the parse of a file can end *)

\* C19 (as claimed): the load of a file ends by returning, with a
\* ParsingError, or with a MissingSectionHeaderError, and in no other way.
C19_ParseOutcomesClosed ==
    LoadDone =>
        result.exc.type \in {"none", "ParsingError", "MissingSectionHeaderError"}

-----------------------------------------------------------------------------
(* C20: the grammar of a line follows the last header *)

\* the content block of section name in secs, empty when there is none
ContentIn(secs, name) ==
    IF DHas(secs, name) THEN ContentOf(DGet(secs, name)) ELSE VStr(<<>>)

\* the step reads a line that is no header while the last header is [Setup],
\* and appends it to no content block
SetupLineKept ==
    (/\ pc = "parse"
     /\ Len(lines') = Len(lines) + 1
     /\ LastHeader(lines) = SETUP
     /\ ~HeaderLine(lines'[Len(lines')])) =>
        \A i \in 1..Len(sections') :
            ContentOf(sections'[i].v) = ContentIn(sections, sections'[i].k)

\* C20 (as claimed): a line that is no header and comes after a [Setup] header
\* and before the next header is handled by the Setup grammar and is never
\* appended to a content block, whatever option lines came before it.
C20_ModeFixedByHeader == [][SetupLineKept]_vars

-----------------------------------------------------------------------------
(* C21: the reserved name is never a section *)

\* C21: whatever add_section, set, remove_option, remove_section and read
\* have done, sections() does not list "DEFAULT" and has_section("DEFAULT")
\* is false.
C21_NoDefaultSection ==
    /\ \A i \in 1..Len(section_names(sections)) :
           section_names(sections)[i] # DEFAULTSECT
    /\ ~has_section(sections, DEFAULTSECT)

\* C21 witness: a load has just read a [DEFAULT] header, after the header of a
\* section, and routed it to the defaults
C21_Witness ==
    /\ pc = "parse"
    /\ Len(lines) >= 2
    /\ lines[Len(lines)] = L_DEFAULT
    /\ cursect = CurDefaults
    /\ sections # <<>>

-----------------------------------------------------------------------------
(* C22: has_option against get *)

\* the section names a probe is made with: the empty name, the reserved
\* defaults name, the names the calls use and the names of the sections
ProbeSections == SectionNames \cup {sections[i].k : i \in 1..Len(sections)}

\* C22 (as claimed): between calls, for every section name and option name,
\* has_option(s, o) is true exactly when get(s, o) returns a value.
C22_ProbeAgreesWithLookup ==
    pc = "idle" =>
        \A s \in ProbeSections, o \in OptionNames \cup {NAME} :
            has_option(sections, defaults, s, o)
                <=> get(sections, defaults, s, o).exc.type = "none"

====
